---------------------------- MODULE Spec2Model ----------------------------
(***************************************************************************)
(* A model of datapact (src/datapact/datapact.py): a DataframeTest over a  *)
(* table, its memoized SeriesTests, the two Asserters of each, the         *)
(* Expectations registered on them, and evaluate() with its upload.        *)
(*                                                                         *)
(* Python objects that are shared by reference (the meta dicts) live in    *)
(* `heap`; an Expectation and the Lines made from it hold an index into    *)
(* it.  heap[DEFAULT_META] is the dict created once, when `record` is      *)
(* defined, as the default of its `meta` parameter.                        *)
(*                                                                         *)
(* Every call is one action.  The specifications differ in the table they  *)
(* start from and in the calls the caller makes: Spec (checks and          *)
(* evaluation), SpecOrder (checks with their own and with the shared       *)
(* meta), SpecRange (range checks with every floor and ceiling),           *)
(* SpecRepeat (describe, re-evaluation, rendering), SpecUpload (connect    *)
(* and upload) and SpecAccess (attribute access).                          *)
(***************************************************************************)
EXTENDS Integers, Sequences, FiniteSets, TLC

VARIABLES
    dataframe,     \* DataframeTest.dataframe: column name -> sequence of cells
    lazy,          \* TRUE when the table is a deferred (dask) one
    title,         \* DataframeTest.title
    description,   \* DataframeTest.description
    url,           \* DataframeTest.url
    series_tests,  \* DataframeTest.series_tests, in insertion order
    server,        \* DataframeTest.server
    token,         \* DataframeTest.token
    heap,          \* the meta dict objects, by reference
    constructed,   \* how many SeriesTest objects were ever constructed
    ret,           \* what the most recent call returned or raised
    latest,        \* the Result the last completed evaluate() returned, and
    previous,      \* the one before it; both forgotten when a column is
                   \* accessed, a check registered, or describe/connect called
    accessed,      \* history: the column names, in the order of their first access
    registered,    \* history: the checks, in the order they were registered
    connect_args   \* history: the arguments of the last connect()

vars == <<dataframe, lazy, title, description, url, series_tests, server,
          token, heap, constructed, ret, latest, previous, accessed, registered,
          connect_args>>

---------------------------------------------------------------------------
(* Bounds of the model.                                                    *)

MaxExpectations == 2     \* Expectations registered on the whole table
MaxRangeChecks == 1      \* the same, where every floor and ceiling is tried
MaxRepeatChecks == 1     \* the same, where the table is described and re-evaluated

---------------------------------------------------------------------------
(* Values.                                                                 *)

None == "None"

\* A scalar of the column engine: deferred until compute() when the table is lazy.
Scalar(lz, n) == [lazy |-> lz, val |-> n]
Number(n) == Scalar(FALSE, n)

\* A cell of a column: <<>> is a null, <<n>> the number n.
NULL == << >>

TableA == [a |-> << <<-1>>, <<0>>, <<2>> >>, b |-> << <<0>>, NULL, <<0>> >>]
TableB == [a |-> << <<-2>>, <<-1>> >>, b |-> << <<1>> >>, title |-> << <<0>> >>]
TableC == [a |-> << <<0>>, <<2>> >>, b |-> << <<-1>>, NULL >>]
\* A table and whether its engine is the deferred one.
Frames == { <<TableA, TRUE>>, <<TableB, FALSE>> }

\* The names a caller asks the DataframeTest for.
Columns == {"a", "b"}
Attributes == {"a", "b", "title", "nope"}

\* be_between(minimum, maximum) as called.
Ranges == { <<0, 1>> }

\* The floors and ceilings tried where only range checks are registered.
Thresholds == -1..1

\* be_normal(alpha), in hundredths; 5 is the default of the parameter.
DEFAULT_ALPHA == 5
Alphas == {DEFAULT_ALPHA}

\* describe(title, description, url) and SeriesTest.describe(title, description, unit)
\* as called.
DescribeCalls == { <<"T", None, "U">> }
SeriesDescribeCalls == { <<"age", None, "years">> }
\* connect(server, token) as called; a server is the pieces of its string, and
\* "datafox.dev" is the default of the parameter.
Servers == { <<"datafox.dev">>, <<"example.com">>, <<"http", "://", "example.com">> }
Tokens == {None, "tok123"}
GithubUrls == {None, "https://github.com/org/repo/tree/ref"}

\* What requests.put can do: answer 2xx, answer another status, or fail to connect.
PutOutcomes == {"2xx", "500", "ConnectionError"}

---------------------------------------------------------------------------
(* The column engine (pandas / dask), as the checks use it.                *)

Values(series) == { series[i][1] : i \in { j \in DOMAIN series : series[j] # NULL } }

Minimum(S) == CHOOSE m \in S : \A n \in S : m <= n
Maximum(S) == CHOOSE m \in S : \A n \in S : m >= n

\* series.min(), series.max(): nulls are skipped.
series_min(series) == Scalar(lazy, Minimum(Values(series)))
series_max(series) == Scalar(lazy, Maximum(Values(series)))

\* series.isnull().values.any()
isnull_any(series) == \E i \in DOMAIN series : series[i] = NULL

\* scipy.stats.normaltest(series): (stat, p), p in hundredths.  The library
\* decides them from the data alone; here from its spread.
normaltest(series) ==
    LET spread == Maximum(Values(series)) - Minimum(Values(series))
    IN  [stat |-> Number(spread), p |-> Number(IF spread >= 2 THEN 50 ELSE 1)]

\* Asserter.bins(): the 10-bucket histogram, kept as the number of values counted.
bins(series) == Number(Cardinality({ j \in DOMAIN series : series[j] # NULL }))

compute(value) == IF value.lazy THEN Scalar(FALSE, value.val) ELSE value

\* `a < n` and `a > n` on a scalar, used as a condition: decided by the value,
\* also for a scalar that was not computed.
Less(value, n) == value.val < n
Greater(value, n) == value.val > n

---------------------------------------------------------------------------
(* dict objects.                                                           *)

EmptyDict == [k \in {} |-> Number(0)]

DictSet(d, key, value) ==
    [k \in DOMAIN d \cup {key} |-> IF k = key THEN value ELSE d[k]]

DEFAULT_META == 1

---------------------------------------------------------------------------
(* Line (datapact.schema): a record of type, success, message, critical    *)
(* and meta, changed only through set and fail.  It keeps the meta dict it  *)
(* is constructed with, so what set writes is seen through every reference  *)
(* to that dict.                                                           *)

NoMessage == [text |-> None, args |-> << >>]

\* Line(type, critical=..., meta=...): the arguments are stored as given.
Line(type, critical, meta) ==
    [type |-> type, success |-> TRUE, message |-> NoMessage,
     critical |-> critical, meta |-> meta]

\* line.fail(message)
fail(line, text, args) ==
    [line EXCEPT !.success = FALSE, !.message = [text |-> text, args |-> args]]

\* line.set(key, value): writes into the dict the line holds.
set(line, h, key, value) == [h EXCEPT ![line.meta] = DictSet(@, key, value)]

---------------------------------------------------------------------------
(* Asserter: the checks.  `self` is the Asserter, [series, critical]; each  *)
(* execute closure gets the Line and the heap and gives what it leaves.     *)

Done(line, h) == [raised |-> FALSE, exc |-> None, line |-> line, heap |-> h]
Raised(exc, line, h) == [raised |-> TRUE, exc |-> exc, line |-> line, heap |-> h]

be_normal_execute(self, alpha, line, h) ==
    LET t  == normaltest(dataframe[self.series])
        h1 == set(line, h, "stat", t.stat)
        h2 == set(line, h1, "p", t.p)
        h3 == set(line, h2, "bins", bins(dataframe[self.series]))
    IN  IF Less(t.p, alpha)
        THEN Done(fail(line, "not normal", <<t.p, t.stat>>), h3)
        ELSE Done(line, h3)

\* be_between that also rejects a maximum equal to the ceiling.
be_between_execute_strict(self, minimum, maximum, line, h) ==
    LET found_min == compute(series_min(dataframe[self.series]))
        found_max == compute(series_max(dataframe[self.series]))
        h1 == set(line, h, "found_minimum", found_min)
        h2 == set(line, h1, "found_maximum", found_max)
        extends_left == Less(found_min, minimum)
        extends_right == ~Less(found_max, maximum)
    IN  IF extends_left /\ extends_right
        THEN Done(fail(line, "out of range",
                       <<Number(minimum), Number(maximum), found_min, found_max>>), h2)
        ELSE IF extends_left
        THEN Done(fail(line, "at least", <<Number(minimum), found_min>>), h2)
        ELSE IF extends_right
        THEN Done(fail(line, "at most", <<Number(maximum), found_max>>), h2)
        ELSE Done(line, h2)

be_between_execute(self, minimum, maximum, line, h) ==
    LET found_min == compute(series_min(dataframe[self.series]))
        found_max == compute(series_max(dataframe[self.series]))
        h1 == set(line, h, "found_minimum", found_min)
        h2 == set(line, h1, "found_maximum", found_max)
        extends_left == Less(found_min, minimum)
        extends_right == Greater(found_max, maximum)
    IN  IF extends_left /\ extends_right
        THEN Done(fail(line, "out of range",
                       <<Number(minimum), Number(maximum), found_min, found_max>>), h2)
        ELSE IF extends_left
        THEN Done(fail(line, "at least", <<Number(minimum), found_min>>), h2)
        ELSE IF extends_right
        THEN Done(fail(line, "at most", <<Number(maximum), found_max>>), h2)
        ELSE Done(line, h2)

\* be_positive that raises when it finds a negative value.
be_positive_execute_raising(self, line, h) ==
    LET found_min == compute(series_min(dataframe[self.series]))
        h1 == set(line, h, "min", found_min)
    IN  IF Less(found_min, 0)
        THEN Raised("Exception: negative value found", line, h1)
        ELSE Done(line, h1)

be_positive_execute(self, line, h) ==
    LET found_min == compute(series_min(dataframe[self.series]))
        h1 == set(line, h, "min", found_min)
    IN  IF Less(found_min, 0)
        THEN Done(fail(line, "negative value found", <<found_min>>), h1)
        ELSE Done(line, h1)

be_negative_execute(self, line, h) ==
    LET found_max == series_max(dataframe[self.series])
        h1 == set(line, h, "max", found_max)
    IN  IF Less(found_max, 0)
        THEN Done(fail(line, "positive value found", <<found_max>>), h1)
        ELSE Done(line, h1)

not_be_null_execute(self, line, h) ==
    IF isnull_any(dataframe[self.series])
    THEN Done(fail(line, "found null values", << >>), h)
    ELSE Done(line, h)

be_one_of_execute(self, line, h) == Raised("Exception: not implemented", line, h)

\* The closure an Expectation was recorded with, by the check that made it.
execute_callable(expectation, line, h) ==
    LET self == expectation.asserter
        args == expectation.args
    IN  CASE expectation.name = "be_normal"   -> be_normal_execute(self, args[1], line, h)
          [] expectation.name = "be_between"  -> be_between_execute(self, args[1], args[2], line, h)
          [] expectation.name = "be_positive" -> be_positive_execute(self, line, h)
          [] expectation.name = "be_negative" -> be_negative_execute(self, line, h)
          [] expectation.name = "not_be_null" -> not_be_null_execute(self, line, h)
          [] expectation.name = "be_one_of"   -> be_one_of_execute(self, line, h)

\* Expectation(asserter, name, execute_callable, meta)
Expectation(asserter, name, args, meta) ==
    [name |-> name, asserter |-> asserter, args |-> args, meta |-> meta]

\* Expectation.execute
execute(expectation, h) ==
    LET line == Line(expectation.name, expectation.asserter.critical, expectation.meta)
    IN  execute_callable(expectation, line, h)

line_to_markdown(line) ==
    IF line.success
    THEN [mark |-> "ok", type |-> line.type, message |-> NoMessage]
    ELSE [mark |-> "failed", type |-> line.type, message |-> line.message]

---------------------------------------------------------------------------
(* SeriesTest and the Asserter's registration list.                        *)

\* SeriesTest(parent, series): two Asserters with no Expectation yet.
SeriesTest(id, name) ==
    [id |-> id, name |-> name, title |-> None, description |-> None,
     unit |-> None, should |-> << >>, must |-> << >>]

\* The Asserter `should` (critical = FALSE) or `must` (critical = TRUE) of a column.
Asserter(name, critical) == [series |-> name, critical |-> critical]

Index(tests, name) == CHOOSE i \in DOMAIN tests : tests[i].name = name
Names(tests) == { tests[i].name : i \in DOMAIN tests }

Registered(tests) ==
    { <<i, c, j>> \in (DOMAIN tests) \X BOOLEAN \X (1..MaxExpectations + 1) :
        j <= Len(IF c THEN tests[i].must ELSE tests[i].should) }
ExpectationAt(tests, e) ==
    (IF e[2] THEN tests[e[1]].must ELSE tests[e[1]].should)[e[3]]

\* Asserter.record: the new Expectation goes to the end of the Asserter's list.
record(tests, i, critical, name, args, meta) ==
    LET expectation == Expectation(Asserter(tests[i].name, critical), name, args, meta)
    IN  IF critical
        THEN [tests EXCEPT ![i].must = Append(@, expectation)]
        ELSE [tests EXCEPT ![i].should = Append(@, expectation)]

---------------------------------------------------------------------------
(* DataframeTest.                                                          *)

\* What an instance has without __getattr__: the fields __init__ sets and the methods.
OwnAttributes ==
    {"dataframe", "title", "description", "url", "series_tests", "server", "token",
     "connect", "is_connected", "upload", "describe", "get_series_test", "evaluate",
     "_repr_markdown_"}

\* get_series_test constructing a SeriesTest on every call.
get_series_test_always_new(tests, name) ==
    IF name \notin Names(tests)
    THEN Append(tests, SeriesTest(constructed + 1, name))
    ELSE [tests EXCEPT ![Index(tests, name)] = SeriesTest(constructed + 1, name)]

\* get_series_test: the mapping after the call.
get_series_test(tests, name) ==
    IF name \notin Names(tests)
    THEN Append(tests, SeriesTest(constructed + 1, name))
    ELSE tests

\* is_connected answering for the server instead of the token.
is_connected_by_server == server # << >>

is_connected == token # None

\* requests.put raising for every answer that is not a success.
put_raises_for_status(outcome) == outcome # "2xx"

\* Whether requests.put, as upload() calls it, raises: only when no answer came.
put_raises(outcome) == outcome = "ConnectionError"

\* get_session_fingerprint(): quote("login@node", safe="").
Fingerprint == <<"login", "%40", "node">>

\* result.to_dict(): the Result with every meta read from the dict it refers to.
to_dict(result, h) ==
    [title |-> result.title, description |-> result.description, url |-> result.url,
     series |-> [i \in DOMAIN result.series |->
        [result.series[i] EXCEPT !.lines =
            [j \in DOMAIN result.series[i].lines |->
                [result.series[i].lines[j] EXCEPT !.meta = h[@]]]]]]

\* upload: the request handed to requests.put.
upload(result, h) ==
    [method |-> "PUT",
     url |-> server \o <<"/api/v1/testruns/">> \o Fingerprint,
     authorization |-> <<"Bearer", token>>,
     json |-> to_dict(result, h)]

\* evaluate() visiting the critical Asserter first.
asserters_must_first(series_test) == << series_test.must, series_test.should >>

\* The Asserters of a column in the order evaluate() visits them.
asserters(series_test) == << series_test.should, series_test.must >>

\* A column result kept from the evaluation before and appended to.
new_series_result_reused(series_test) ==
    [name |-> series_test.name, title |-> series_test.title,
     description |-> series_test.description, unit |-> series_test.unit,
     lines |-> IF \E i \in DOMAIN latest.series : latest.series[i].name = series_test.name
               THEN latest.series[CHOOSE i \in DOMAIN latest.series :
                                    latest.series[i].name = series_test.name].lines
               ELSE << >>]

\* SeriesTestEvaluationResult(name, title, description, unit)
new_series_result(series_test) ==
    [name |-> series_test.name, title |-> series_test.title,
     description |-> series_test.description, unit |-> series_test.unit,
     lines |-> << >>]

\* DataframeTestEvaluationResult(title, description, url)
new_result == [title |-> title, description |-> description, url |-> url, series |-> << >>]

NoResult == [title |-> "no result", description |-> None, url |-> None, series |-> << >>]

\* The inner loops of evaluate(): one column's Expectations, stopping at a raise.
RECURSIVE run_expectations(_, _, _)
run_expectations(expectations, series_result, h) ==
    IF expectations = << >>
    THEN [raised |-> FALSE, exc |-> None, series_result |-> series_result, heap |-> h]
    ELSE LET r == execute(Head(expectations), h)
         IN  IF r.raised
             THEN [raised |-> TRUE, exc |-> r.exc, series_result |-> series_result,
                   heap |-> r.heap]
             ELSE run_expectations(Tail(expectations),
                                   [series_result EXCEPT !.lines = Append(@, r.line)],
                                   r.heap)

\* The outer loop of evaluate(): the columns in the mapping's order.
RECURSIVE run_series(_, _, _)
run_series(tests, result, h) ==
    IF tests = << >>
    THEN [raised |-> FALSE, exc |-> None, result |-> result, heap |-> h]
    ELSE LET mine == asserters(Head(tests))
             r == run_expectations(mine[1] \o mine[2], new_series_result(Head(tests)), h)
             sofar == [result EXCEPT !.series = Append(@, r.series_result)]
         IN  IF r.raised
             THEN [raised |-> TRUE, exc |-> r.exc, result |-> sofar, heap |-> r.heap]
             ELSE run_series(Tail(tests), sofar, r.heap)

---------------------------------------------------------------------------
(* The state after test(dataframe).                                        *)

InitOf(frames, urls) ==
    /\ \E f \in frames : dataframe = f[1] /\ lazy = f[2]
    /\ title = None
    /\ description = None
    /\ url \in urls
    /\ series_tests = << >>
    /\ server = << >>
    /\ token = None
    /\ heap = << EmptyDict >>
    /\ constructed = 0
    /\ ret = [op |-> "test", status |-> "returned", exc |-> None]
    /\ latest = NoResult
    /\ previous = NoResult
    /\ accessed = << >>
    /\ registered = << >>
    /\ connect_args = << >>

\* A pandas table, outside a GitHub checkout.
Init == InitOf({ <<TableA, FALSE>> }, {None})

Forget == latest' = NoResult /\ previous' = NoResult

---------------------------------------------------------------------------
(* The calls.                                                              *)

\* DataframeTest.__getattr__(attr), reached only for a name the instance lacks.
__getattr__(attr) ==
    IF attr \notin DOMAIN dataframe
    THEN /\ ret' = [op |-> "getattr", status |-> "raised", exc |-> "AttributeError",
                    attr |-> attr, id |-> 0]
         /\ UNCHANGED <<series_tests, constructed>>
    ELSE /\ series_tests' = get_series_test(series_tests, attr)
         /\ constructed' = IF series_tests' # series_tests THEN constructed + 1
                           ELSE constructed
         /\ ret' = [op |-> "getattr", status |-> "returned", exc |-> None,
                    attr |-> attr, id |-> series_tests'[Index(series_tests', attr)].id]

\* `table_test.<attr>`: Python's attribute lookup on a DataframeTest.
getattribute(attr) ==
    /\ IF attr \in OwnAttributes
       THEN /\ ret' = [op |-> "getattr", status |-> "returned", exc |-> None,
                       attr |-> attr, id |-> 0]
            /\ UNCHANGED <<series_tests, constructed>>
       ELSE __getattr__(attr)
    /\ accessed' = IF ret'.id # 0 /\ \A k \in DOMAIN accessed : accessed[k] # attr
                   THEN Append(accessed, attr) ELSE accessed
    /\ Forget
    /\ UNCHANGED <<dataframe, lazy, title, description, url, server, token, heap,
                   registered, connect_args>>

\* DataframeTest.describe
describe(t, d, u) ==
    /\ title' = IF t # None THEN t ELSE title
    /\ description' = IF d # None THEN d ELSE description
    /\ url' = IF u # None THEN u ELSE url
    /\ ret' = [op |-> "describe", status |-> "returned", exc |-> None]
    /\ Forget
    /\ UNCHANGED <<dataframe, lazy, series_tests, server, token, heap, constructed,
                   accessed, registered, connect_args>>

\* SeriesTest.describe
series_describe(i, t, d, u) ==
    /\ i \in DOMAIN series_tests
    /\ series_tests' = [series_tests EXCEPT
            ![i].title = IF t # None THEN t ELSE @,
            ![i].description = IF d # None THEN d ELSE @,
            ![i].unit = IF u # None THEN u ELSE @]
    /\ ret' = [op |-> "describe", status |-> "returned", exc |-> None]
    /\ Forget
    /\ UNCHANGED <<dataframe, lazy, title, description, url, server, token, heap,
                   constructed, accessed, registered, connect_args>>

\* DataframeTest.connect
connect(s, t) ==
    /\ server' = IF \A k \in DOMAIN s : s[k] # "://" THEN <<"https", "://">> \o s ELSE s
    /\ token' = t
    /\ ret' = [op |-> "connect", status |-> "returned", exc |-> None]
    /\ connect_args' = <<s, t>>
    /\ Forget
    /\ UNCHANGED <<dataframe, lazy, title, description, url, series_tests, heap,
                   constructed, accessed, registered>>

NumExpectations ==
    LET RECURSIVE count(_)
        count(tests) == IF tests = << >> THEN 0
                        ELSE Len(Head(tests).should) + Len(Head(tests).must)
                             + count(Tail(tests))
    IN  count(series_tests)

\* A check is called on an Asserter: what every be_* method does around `record`.
Register(i, critical, name, args, meta, h) ==
    /\ i \in DOMAIN series_tests
    /\ NumExpectations < MaxExpectations
    /\ series_tests' = record(series_tests, i, critical, name, args, meta)
    /\ heap' = h
    /\ ret' = [op |-> "record", status |-> "returned", exc |-> None,
               expectation |-> Expectation(Asserter(series_tests[i].name, critical),
                                           name, args, meta)]
    /\ registered' = Append(registered, [series |-> series_tests[i].name,
                                         critical |-> critical, type |-> name,
                                         meta |-> meta])
    /\ Forget
    /\ UNCHANGED <<dataframe, lazy, title, description, url, server, token,
                   constructed, accessed, connect_args>>

be_normal(i, critical, alpha) ==
    Register(i, critical, "be_normal", <<alpha>>, Len(heap) + 1,
             Append(heap, DictSet(EmptyDict, "alpha", Number(alpha))))

be_between(i, critical, minimum, maximum) ==
    Register(i, critical, "be_between", <<minimum, maximum>>, Len(heap) + 1,
             Append(heap, DictSet(DictSet(EmptyDict, "minimum", Number(minimum)),
                                  "maximum", Number(maximum))))

be_positive(i, critical) == Register(i, critical, "be_positive", << >>, DEFAULT_META, heap)

be_negative(i, critical) == Register(i, critical, "be_negative", << >>, DEFAULT_META, heap)

not_be_null(i, critical) == Register(i, critical, "not_be_null", << >>, DEFAULT_META, heap)

be_one_of(i, critical) == Register(i, critical, "be_one_of", << >>, DEFAULT_META, heap)

\* DataframeTest.evaluate; `outcome` is what requests.put does if it is called.
evaluate(outcome) ==
    LET r == run_series(series_tests, new_result, heap)
        request == upload(r.result, r.heap)
    IN  /\ heap' = r.heap
        /\ IF r.raised
           THEN /\ ret' = [op |-> "evaluate", status |-> "raised", exc |-> r.exc,
                           result |-> r.result, requests |-> << >>, answer |-> None]
                /\ UNCHANGED <<latest, previous>>
           ELSE IF is_connected /\ put_raises(outcome)
           THEN /\ ret' = [op |-> "evaluate", status |-> "raised", exc |-> outcome,
                           result |-> r.result, requests |-> <<request>>,
                           answer |-> outcome]
                /\ UNCHANGED <<latest, previous>>
           ELSE /\ ret' = [op |-> "evaluate", status |-> "returned", exc |-> None,
                           result |-> r.result,
                           requests |-> IF is_connected THEN <<request>> ELSE << >>,
                           answer |-> IF is_connected THEN outcome ELSE None]
                /\ latest' = r.result
                /\ previous' = latest
        /\ UNCHANGED <<dataframe, lazy, title, description, url, series_tests, server,
                       token, constructed, accessed, registered, connect_args>>

\* Expectation._repr_markdown_
_repr_markdown_(e) ==
    /\ e \in Registered(series_tests)
    /\ LET r == execute(ExpectationAt(series_tests, e), heap)
       IN  /\ heap' = r.heap
           /\ ret' = IF r.raised
                     THEN [op |-> "_repr_markdown_", status |-> "raised", exc |-> r.exc]
                     ELSE [op |-> "_repr_markdown_", status |-> "returned", exc |-> None,
                           self |-> ExpectationAt(series_tests, e), line |-> r.line,
                           markdown |-> line_to_markdown(r.line)]
    /\ UNCHANGED <<dataframe, lazy, title, description, url, series_tests, server,
                   token, constructed, latest, previous, accessed, registered, connect_args>>

Access(names) == \E attr \in names : getattribute(attr)

Describe ==
    \/ \E c \in DescribeCalls : describe(c[1], c[2], c[3])
    \/ \E i \in 1..2, c \in SeriesDescribeCalls : series_describe(i, c[1], c[2], c[3])

Connect == \E s \in Servers, t \in Tokens : connect(s, t)

Evaluate == \E outcome \in PutOutcomes : evaluate(outcome)

Render == \E e \in (1..2) \X BOOLEAN \X (1..MaxExpectations + 1) : _repr_markdown_(e)

\* A table test that is given checks of every kind but the normality test and
\* evaluated, never connected.
Next ==
    \/ Access(Columns)
    \/ \E i \in 1..2, critical \in BOOLEAN, range \in Ranges :
            be_between(i, critical, range[1], range[2])
    \/ \E i \in 1..2, critical \in BOOLEAN : be_positive(i, critical)
    \/ \E i \in 1..2, critical \in BOOLEAN : be_negative(i, critical)
    \/ \E i \in 1..2, critical \in BOOLEAN : not_be_null(i, critical)
    \/ \E i \in 1..2, critical \in BOOLEAN : be_one_of(i, critical)
    \/ Evaluate

Spec == Init /\ [][Next]_vars

\* A table test whose checks keep their own meta or share the default one.
InitOrder == InitOf({ <<TableC, TRUE>> }, {None})

NextOrder ==
    \/ Access(Columns)
    \/ \E i \in 1..2, critical \in BOOLEAN, alpha \in Alphas : be_normal(i, critical, alpha)
    \/ \E i \in 1..2, critical \in BOOLEAN, range \in Ranges :
            be_between(i, critical, range[1], range[2])
    \/ \E i \in 1..2, critical \in BOOLEAN : be_positive(i, critical)
    \/ \E i \in 1..2, critical \in BOOLEAN : not_be_null(i, critical)
    \/ Evaluate

SpecOrder == InitOrder /\ [][NextOrder]_vars

\* A table test that is given range checks only, with any floor and ceiling.
InitRange == InitOf(Frames, {None})

NextRange ==
    \/ Access(Columns)
    \/ \E i \in 1..2, critical \in BOOLEAN, minimum \in Thresholds, maximum \in Thresholds :
            NumExpectations < MaxRangeChecks /\ be_between(i, critical, minimum, maximum)
    \/ Evaluate
    \/ Render

SpecRange == InitRange /\ [][NextRange]_vars

\* A table test that is described, given checks, evaluated again and again and
\* rendered, in or outside a GitHub checkout.
InitRepeat == InitOf({ <<TableA, FALSE>> }, GithubUrls)

NextRepeat ==
    \/ Access(Columns)
    \/ Describe
    \/ \E i \in 1..2, critical \in BOOLEAN, range \in Ranges :
            NumExpectations < MaxRepeatChecks /\ be_between(i, critical, range[1], range[2])
    \/ \E i \in 1..2, critical \in BOOLEAN :
            NumExpectations < MaxRepeatChecks /\ be_positive(i, critical)
    \/ \E i \in 1..2, critical \in BOOLEAN :
            NumExpectations < MaxRepeatChecks /\ not_be_null(i, critical)
    \/ Evaluate
    \/ Render

SpecRepeat == InitRepeat /\ [][NextRepeat]_vars

\* A table test that is connected, given checks and evaluated.
InitUpload == InitOf({ <<TableA, FALSE>> }, {None})

NextUpload ==
    \/ Access(Columns)
    \/ Connect
    \/ \E i \in 1..2, critical \in BOOLEAN : be_positive(i, critical)
    \/ \E i \in 1..2, critical \in BOOLEAN : be_one_of(i, critical)
    \/ Evaluate

SpecUpload == InitUpload /\ [][NextUpload]_vars

\* A table test asked for columns, for names it has itself and for unknown names.
InitAccess == InitOf({ <<TableA, FALSE>>, <<TableB, TRUE>> }, {None})

NextAccess ==
    \/ Access(Attributes)
    \/ \E i \in 1..2, c \in SeriesDescribeCalls : series_describe(i, c[1], c[2], c[3])
    \/ \E i \in 1..2, critical \in BOOLEAN : be_positive(i, critical)
    \/ Evaluate

SpecAccess == InitAccess /\ [][NextAccess]_vars

---------------------------------------------------------------------------
(* What the claims speak of.                                               *)

Returned(op) == ret.op = op /\ ret.status = "returned"

\* The Expectations executed by the most recent call, each with the Line it gave:
\* all of them after an evaluate() that returned, one after a rendering.
Executed ==
    IF Returned("_repr_markdown_") THEN { <<ret.self, ret.line>> }
    ELSE IF Returned("evaluate")
    THEN { <<(series_tests[i].should \o series_tests[i].must)[j],
             ret.result.series[i].lines[j]>> :
             <<i, j>> \in { p \in (DOMAIN ret.result.series) \X (1..MaxExpectations + 1) :
                    /\ p[1] \in DOMAIN series_tests
                    /\ p[2] \in DOMAIN ret.result.series[p[1]].lines
                    /\ p[2] <= Len(series_tests[p[1]].should)
                                + Len(series_tests[p[1]].must) } }
    ELSE {}

Lo(name) == Minimum(Values(dataframe[name]))
Hi(name) == Maximum(Values(dataframe[name]))

\* The checks registered on one Asserter, oldest first.
ChecksOf(name, critical) ==
    SelectSeq(registered, LAMBDA r : r.series = name /\ r.critical = critical)

Signature(name, lines) ==
    [j \in DOMAIN lines |-> [series |-> name, critical |-> lines[j].critical,
                             type |-> lines[j].type, meta |-> lines[j].meta]]

\* C2: an evaluate() that returns gives the columns in the order of their first
\* access, and for each column one Line per registered check: the advisory
\* (should) checks in registration order, then the critical (must) ones in
\* registration order.
C2_EvaluationOrder ==
    Returned("evaluate") =>
        /\ [i \in DOMAIN ret.result.series |-> ret.result.series[i].name] = accessed
        /\ \A i \in DOMAIN ret.result.series :
              LET name == ret.result.series[i].name
              IN  Signature(name, ret.result.series[i].lines)
                    = ChecksOf(name, FALSE) \o ChecksOf(name, TRUE)

\* A column accessed second-to-first, with a critical check registered before an
\* advisory one on the same column, has been evaluated.
C2_Witness ==
    /\ Returned("evaluate")
    /\ accessed = <<"b", "a">>
    /\ Len(registered) = 2
    /\ registered[1].critical /\ ~registered[2].critical
    /\ registered[1].series = registered[2].series
    /\ registered[1].type # registered[2].type

C1_RangeCheck ==
    \A p \in Executed :
        p[1].name = "be_between" =>
            LET M == p[1].args[1]
                X == p[1].args[2]
                lo == Lo(p[1].asserter.series)
                hi == Hi(p[1].asserter.series)
                line == p[2]
            IN  /\ ~line.success <=> (lo < M \/ hi > X)
                /\ heap[line.meta]["found_minimum"] = Number(lo)
                /\ heap[line.meta]["found_maximum"] = Number(hi)
                /\ line.message.text = "out of range" <=> (lo < M /\ hi > X)
                /\ line.message.text = "at least" <=> (lo < M /\ ~(hi > X))
                /\ line.message.text = "at most" <=> (~(lo < M) /\ hi > X)
                /\ line.message.text = None <=> line.success

\* evaluate() ran be_between(0, 1) on a deferred column whose values go from -1
\* to 2: both bounds broken.
C1_Witness ==
    /\ Returned("evaluate")
    /\ lazy
    /\ \E p \in Executed :
          /\ p[1].name = "be_between" /\ p[1].args = <<0, 1>>
          /\ Lo(p[1].asserter.series) = -1 /\ Hi(p[1].asserter.series) = 2
          /\ p[2].message = [text |-> "out of range",
                             args |-> <<Number(0), Number(1), Number(-1), Number(2)>>]

\* C8 as claimed: the Line of be_negative succeeds exactly when every value of
\* the column is 0 or smaller.
C8_Claim ==
    \A p \in Executed :
        p[1].name = "be_negative" =>
            (p[2].success <=> \A v \in Values(dataframe[p[1].asserter.series]) : v <= 0)

\* The meta an Expectation is registered with.
StaticMeta(name, args) ==
    CASE name = "be_between" ->
            DictSet(DictSet(EmptyDict, "minimum", Number(args[1])),
                    "maximum", Number(args[2]))
      [] name = "be_normal" -> DictSet(EmptyDict, "alpha", Number(args[1]))
      [] OTHER -> EmptyDict

\* C9 as claimed: whatever was executed, the meta of a registered range or
\* normality check is the mapping it was registered with.
C9_Claim ==
    \A e \in Registered(series_tests) :
        LET expectation == ExpectationAt(series_tests, e)
        IN  expectation.name \in {"be_between", "be_normal"} =>
                heap[expectation.meta] = StaticMeta(expectation.name, expectation.args)

\* The keys a check records when it runs.
Measurements(name) ==
    CASE name = "be_between" -> {"found_minimum", "found_maximum"}
      [] name = "be_normal" -> {"stat", "p", "bins"}
      [] name = "be_positive" -> {"min"}
      [] name = "be_negative" -> {"max"}
      [] OTHER -> {}

\* C10 as claimed: in a returned Result the meta of a Line holds only the static
\* parameters of its own check and what that check itself recorded.
C10_Claim ==
    Returned("evaluate") =>
        \A p \in Executed :
            DOMAIN heap[p[2].meta]
                \subseteq DOMAIN StaticMeta(p[1].name, p[1].args) \cup Measurements(p[1].name)

\* C3: two evaluate() calls that both return, with no column access, check
\* registration, describe or connect between them, give structurally identical
\* Results: the same title, description and url, the same columns, and for each
\* column the same Lines with equal type, success, message, critical and meta.
C3_Reevaluation ==
    previous # NoResult => to_dict(previous, heap) = to_dict(latest, heap)

\* A described table with a failing check has been evaluated twice in a row.
C3_Witness ==
    /\ previous # NoResult
    /\ Returned("evaluate")
    /\ latest.title = "T"
    /\ \E i \in DOMAIN latest.series :
          /\ latest.series[i].title = "age"
          /\ \E j \in DOMAIN latest.series[i].lines : ~latest.series[i].lines[j].success

IdOf(tests, name) == tests[Index(tests, name)].id

IsPrefix(short, long) == Len(short) <= Len(long) /\ SubSeq(long, 1, Len(short)) = short

\* C4 as claimed: every name that is a column of the table gives its SeriesTest,
\* and every other name raises AttributeError.
C4_Claim ==
    ret.op = "getattr" =>
        IF ret.attr \in DOMAIN dataframe
        THEN /\ ret.status = "returned"
             /\ ret.attr \in Names(series_tests)
             /\ ret.id = IdOf(series_tests, ret.attr)
        ELSE ret.status = "raised" /\ ret.exc = "AttributeError"

\* C4, amended: the mapping never holds two SeriesTests of one name nor replaces
\* one; a name the DataframeTest has itself (a field or a method) gives that
\* attribute and leaves the mapping alone; any other name gives, if it is a
\* column, the SeriesTest made at its first access, with the checks registered
\* since, and otherwise raises AttributeError and leaves the mapping unchanged.
C4_Memoized ==
    [][ /\ Cardinality(Names(series_tests')) = Len(series_tests')
        /\ \A i \in DOMAIN series_tests :
              /\ i \in DOMAIN series_tests'
              /\ series_tests'[i].id = series_tests[i].id
              /\ series_tests'[i].name = series_tests[i].name
              /\ IsPrefix(series_tests[i].should, series_tests'[i].should)
              /\ IsPrefix(series_tests[i].must, series_tests'[i].must)
        /\ ret'.op = "getattr" =>
              IF ret'.attr \in OwnAttributes
              THEN /\ ret'.status = "returned" /\ ret'.id = 0
                   /\ series_tests' = series_tests
              ELSE IF ret'.attr \in DOMAIN dataframe
              THEN /\ ret'.status = "returned"
                   /\ ret'.id = IdOf(series_tests', ret'.attr)
                   /\ IF ret'.attr \in Names(series_tests)
                      THEN series_tests' = series_tests
                      ELSE /\ Len(series_tests') = Len(series_tests) + 1
                           /\ \A i \in DOMAIN series_tests : series_tests[i].id # ret'.id
              ELSE /\ ret'.status = "raised" /\ ret'.exc = "AttributeError"
                   /\ series_tests' = series_tests
      ]_vars

\* A column was accessed again after a check had been registered on it, and the
\* SeriesTest returned is the one that holds the check.
C4_Witness ==
    /\ Returned("getattr")
    /\ ret.id # 0
    /\ \E i \in DOMAIN series_tests :
          /\ series_tests[i].id = ret.id
          /\ series_tests[i].name = ret.attr
          /\ Len(series_tests[i].should) + Len(series_tests[i].must) > 0

\* The server connect() keeps for an argument.
WithScheme(s) == IF s[1] \in {"http", "https"} /\ Len(s) > 1 THEN s ELSE <<"https", "://">> \o s

\* C6: an evaluate() that returns has issued exactly one PUT if a token is set
\* and none otherwise (connect() without a token included); the PUT carries the
\* complete Result, one Line per registered check of every accessed column, and
\* goes to {server}/api/v1/testruns/{fingerprint}, the server being the argument
\* of connect() with https:// put before it when it names no scheme; an
\* evaluate() that a check makes raise has issued no PUT.
C6_OnePut ==
    /\ Returned("evaluate") =>
          IF token # None
          THEN /\ Len(ret.requests) = 1
               /\ ret.requests[1].method = "PUT"
               /\ ret.requests[1].url
                    = WithScheme(connect_args[1]) \o <<"/api/v1/testruns/">> \o Fingerprint
               /\ ret.requests[1].json = to_dict(ret.result, heap)
               /\ [i \in DOMAIN ret.requests[1].json.series |->
                        ret.requests[1].json.series[i].name] = accessed
               /\ \A i \in DOMAIN ret.requests[1].json.series :
                     Len(ret.requests[1].json.series[i].lines)
                        = Len(ChecksOf(accessed[i], FALSE)) + Len(ChecksOf(accessed[i], TRUE))
          ELSE ret.requests = << >>
    /\ (ret.op = "evaluate" /\ ret.exc = "Exception: not implemented") =>
          ret.requests = << >>

\* After connect("example.com", "tok123") an evaluate() of two columns with a
\* check each returned.
C6_Witness ==
    /\ Returned("evaluate")
    /\ connect_args = << <<"example.com">>, "tok123" >>
    /\ Len(ret.requests) = 1
    /\ Len(ret.result.series) = 2
    /\ \A i \in DOMAIN ret.result.series : Len(ret.result.series[i].lines) = 1

\* C7 as claimed: with a token set, an upload that fails, by a network error or
\* by an answer that is not 2xx, makes evaluate() raise.
C7_Claim ==
    (ret.op = "evaluate" /\ ret.requests # << >> /\ ret.answer # "2xx") =>
        ret.status = "raised"

\* C7, amended: with a token set, an upload that fails by a network error makes
\* evaluate() raise that error; an answer that is not 2xx is not looked at, and
\* evaluate() returns the Result as after a 2xx answer.
C7_NetworkErrorsPropagate ==
    (ret.op = "evaluate" /\ ret.requests # << >>) =>
        /\ ret.answer = "ConnectionError" => (ret.status = "raised" /\ ret.exc = ret.answer)
        /\ ret.answer # "ConnectionError" => ret.status = "returned"

\* An upload failed by a network error and evaluate() raised it.
C7_Witness ==
    /\ ret.op = "evaluate" /\ ret.status = "raised"
    /\ ret.requests # << >>
    /\ ret.answer = "ConnectionError"

===========================================================================
